---- MODULE Spec2Model ----
(***************************************************************************)
(* The explicit-free-list allocator of src/mm.c as a state machine.        *)
(*                                                                         *)
(* The heap is an array of 32-bit words (every header, footer and link of  *)
(* mm.c is one aligned 4-byte word); addresses are byte addresses.  The    *)
(* host owns the bytes [MemBase, max) and its mem_sbrk hands them out in    *)
(* order.  Every C function is an operator from a machine record           *)
(*     [mem, brk, max, hl (heap_listp), ff (first_free), out, fail, wild]  *)
(* to a machine record, written statement by statement; fail says that a   *)
(* mem_sbrk call of the operation was refused, wild that the operation has *)
(* written a link field somewhere else than in a block marked free, and    *)
(* out is "ok" until the function touches a word outside [MemBase, max)    *)
(* ("crash": the access is undefined; the bytes past brk that the host     *)
(* owns are ordinary memory, the others are taken to fault) or walks a     *)
(* cyclic list for ever ("hang").                                          *)
(*                                                                         *)
(* size_t values are 64-bit in the build.  A request size is written as an *)
(* integer s: s >= 0 is the size itself, s < 0 is the size 2^64 + s.  Sums  *)
(* and differences of such representatives are the representatives of the  *)
(* sums and differences modulo 2^64, and unsigned comparison is ULE/ULT.   *)
(***************************************************************************)
EXTENDS Integers, Sequences, FiniteSets, TLC

----------------------------------------------------------------------------
\* Program constants (src/mm.c, lines 62-80).
ALIGNMENT == 8
WSIZE == 4
DSIZE == 8
CHUNKSIZE == 512
MINBLKSIZE == 2 * DSIZE
NULL == 0
\* (void *)-1, mem_sbrk's failure value.
SbrkFail == -1

\* Bounds of the model.
\* The host grants at most 4*WSIZE + HostChunks * CHUNKSIZE bytes in all.
HostChunks == 2
\* The caller holds at most MaxLive blocks at a time.
MaxLive == 2
\* The caller makes at most MaxCalls calls.
MaxCalls == 5

\* The host region: mem_sbrk's first answer is MemBase (8-byte aligned).
MemBase == DSIZE
HostMax == MemBase + 4 * WSIZE + HostChunks * CHUNKSIZE + DSIZE
WordIdx == (MemBase \div WSIZE) .. (HostMax \div WSIZE - 1)

\* Stands for 2^32 (beyond TLC's integers): a 32-bit word that would hold a
\* negative number holds a value beyond every address of the host region.
U32Span == 2^30
U32(v) == IF v < 0 THEN v + U32Span ELSE v

\* Unsigned comparison of size_t representatives (negative = 2^64 + s).
ULT(a, b) == IF (a < 0) = (b < 0) THEN a < b ELSE b < 0
ULE(a, b) == a = b \/ ULT(a, b)
MAX(x, y) == IF ULT(y, x) THEN x ELSE y

----------------------------------------------------------------------------
\* Memory access.  GET/PUT of mm.c, lines 88-89.  A word of the host's bytes
\* can be read and written, whether mem_sbrk has handed it out or not.
Valid(m, p) == p % WSIZE = 0 /\ p >= MemBase /\ p + WSIZE <= m.max

GET(m, p) == IF Valid(m, p) THEN m.mem[p \div WSIZE] ELSE 0

PUT(m, p, val) ==
    IF m.out # "ok" THEN m
    ELSE IF Valid(m, p) THEN [m EXCEPT !.mem[p \div WSIZE] = U32(val)]
    ELSE [m EXCEPT !.out = "crash"]

\* The reads of a statement: a read outside the region faults.
Touch(m, S) ==
    IF m.out = "ok" /\ (\E p \in S : ~Valid(m, p))
    THEN [m EXCEPT !.out = "crash"] ELSE m

\* size | alloc
PACK(size, alloc) == IF size % 2 = 1 THEN size ELSE size + alloc

GET_SIZE(m, p) == GET(m, p) - (GET(m, p) % 8)
GET_ALLOC(m, p) == GET(m, p) % 2

HDRP(bp) == bp - WSIZE
FTRP(m, bp) == bp + GET_SIZE(m, HDRP(bp)) - DSIZE

NEXT_BLKP(m, bp) == bp + GET_SIZE(m, bp - WSIZE)
PREV_BLKP(m, bp) == bp - GET_SIZE(m, bp - DSIZE)

\* Address compression, lines 118-119, and the link fields, lines 100-103.
COMP_OFFSET(m, address) == address - m.hl
COMP_ADDRESS(m, offset) == m.hl + offset

GET_PRED(m, bp) == COMP_ADDRESS(m, GET(m, bp))
GET_SUCC(m, bp) == COMP_ADDRESS(m, GET(m, bp + WSIZE))
\* The blocks from bp on, by NEXT_BLKP, up to the first header of size 0 (the
\* epilogue) or the end of the region.
RECURSIVE blocks_from(_, _)
blocks_from(m, bp) ==
    IF ~Valid(m, HDRP(bp)) \/ GET_SIZE(m, HDRP(bp)) <= 0 THEN {}
    ELSE {bp} \cup blocks_from(m, NEXT_BLKP(m, bp))

\* The walk from block cur on, by NEXT_BLKP, comes to the block bp.
RECURSIVE on_walk(_, _, _)
on_walk(m, cur, bp) ==
    IF cur = bp THEN Valid(m, HDRP(bp)) /\ GET_SIZE(m, HDRP(bp)) > 0
    ELSE IF cur > bp \/ ~Valid(m, HDRP(cur)) \/ GET_SIZE(m, HDRP(cur)) <= 0
         THEN FALSE
    ELSE on_walk(m, NEXT_BLKP(m, cur), bp)

\* bp is a block of the heap, the prologue apart, whose header says free.
FreeTarget(m, bp) ==
    /\ bp # m.hl
    /\ GET_ALLOC(m, HDRP(bp)) = 0
    /\ on_walk(m, m.hl + DSIZE, bp)

\* The machine about to write a link field of bp.
LinkOf(m, bp) ==
    IF m.out # "ok" \/ FreeTarget(m, bp) THEN m ELSE [m EXCEPT !.wild = TRUE]

SET_PRED(m, bp, val) == PUT(LinkOf(m, bp), bp, COMP_OFFSET(m, val))
SET_SUCC(m, bp, val) == PUT(LinkOf(m, bp), bp + WSIZE, COMP_OFFSET(m, val))

----------------------------------------------------------------------------
\* A C function is the composition of its statements, each an operator from
\* the machine before it to the machine after it.

\* PUT(HDRP(bp), val), PUT(FTRP(bp), val) and their like on the neighbours.
PUT_HDR(m, bp, val) == PUT(Touch(m, {HDRP(bp)}), HDRP(bp), val)
PUT_FTR(m, bp, val) == PUT(Touch(m, {HDRP(bp)}), FTRP(m, bp), val)
PUT_NEXT_HDR(m, bp, val) ==
    PUT(Touch(m, {HDRP(bp)}), HDRP(NEXT_BLKP(m, bp)), val)
PUT_NEXT_FTR(m, bp, val) ==
    PUT(Touch(Touch(m, {HDRP(bp)}), {HDRP(NEXT_BLKP(m, bp))}),
        FTRP(m, NEXT_BLKP(m, bp)), val)
PUT_PREV_HDR(m, bp, val) ==
    PUT(Touch(m, {bp - DSIZE}), HDRP(PREV_BLKP(m, bp)), val)

\* freelist_add, lines 461-469.
freelist_add(m, bp) ==
    LET s1(a) == SET_PRED(a, bp, a.hl)
        s2(a) == SET_SUCC(a, bp, a.ff)
        s3(a) == IF a.ff # a.hl THEN SET_PRED(a, a.ff, bp) ELSE a
        s4(a) == IF a.out = "ok" THEN [a EXCEPT !.ff = bp] ELSE a
    IN  s4(s3(s2(s1(m))))

\* are_adjacent, lines 220-233.
are_adjacent(m, bp, case3) ==
    IF case3
    THEN LET next  == GET_SUCC(m, bp)
             s1(a) == SET_PRED(a, next, a.hl)
             s2(a) == IF a.out = "ok" THEN [a EXCEPT !.ff = next] ELSE a
         IN  s2(s1(Touch(m, {bp + WSIZE})))
    ELSE LET new_succ == GET_SUCC(m, GET_SUCC(m, bp))
             s1(a) == SET_SUCC(a, bp, new_succ)
             s2(a) == IF new_succ # a.hl THEN SET_PRED(a, new_succ, bp) ELSE a
         IN  s2(s1(Touch(Touch(m, {bp + WSIZE}), {GET_SUCC(m, bp) + WSIZE})))

\* not_adjacent, lines 239-261.
not_adjacent(m, bp, case3) ==
    IF case3
    THEN LET prev  == PREV_BLKP(m, bp)
             s1(a) == SET_SUCC(a, GET_PRED(a, prev), GET_SUCC(a, prev))
             s2(a) == IF GET_SUCC(a, prev) # a.hl
                      THEN SET_PRED(a, GET_SUCC(a, prev), GET_PRED(a, prev))
                      ELSE a
             s3(a) == SET_PRED(a, prev, a.hl)
             s4(a) == SET_SUCC(Touch(a, {bp + WSIZE}), prev, GET_SUCC(a, bp))
             s5(a) == IF a.out = "ok" THEN [a EXCEPT !.ff = prev] ELSE a
             s6(a) == SET_PRED(a, GET_SUCC(a, bp), a.ff)
         IN  s6(s5(s4(s3(s2(s1(Touch(Touch(m, {bp - DSIZE}), {prev, prev + WSIZE})))))))
    ELSE LET next  == NEXT_BLKP(m, bp)
             pred  == GET_PRED(m, next)
             succ  == GET_SUCC(m, next)
             s1(a) == SET_SUCC(a, pred, succ)
             s2(a) == IF succ # a.hl THEN SET_PRED(a, succ, pred) ELSE a
         IN  s2(s1(Touch(Touch(m, {bp - WSIZE}), {next, next + WSIZE})))

\* A function's machine and its return value.
Ret(m, r) == [m |-> m, r |-> r]

\* coalesce, lines 275-278 and 295-298: the next block leaves the list.
unlink_next(m, bp) ==
    IF GET_SUCC(m, bp) = NEXT_BLKP(m, bp)
    THEN are_adjacent(Touch(m, {bp + WSIZE, bp - WSIZE}), bp, FALSE)
    ELSE not_adjacent(Touch(m, {bp + WSIZE, bp - WSIZE}), bp, FALSE)

\* coalesce, lines 285-288 and 299-302: the previous block leaves the list
\* and takes bp's place at its head.
unlink_prev(m, bp) ==
    IF GET_SUCC(m, bp) = PREV_BLKP(m, bp)
    THEN are_adjacent(Touch(m, {bp + WSIZE, bp - DSIZE}), bp, TRUE)
    ELSE not_adjacent(Touch(m, {bp + WSIZE, bp - DSIZE}), bp, TRUE)

\* coalesce, lines 279-281: case 2's size, header and footer.
merge_next(m, bp, size) ==
    LET sz == size + GET_SIZE(m, HDRP(NEXT_BLKP(m, bp)))
    IN  PUT_FTR(PUT_HDR(Touch(Touch(m, {bp - WSIZE}), {HDRP(NEXT_BLKP(m, bp))}),
                        bp, PACK(sz, 0)),
                bp, PACK(sz, 0))

\* coalesce, lines 289-292: case 3's size, footer and header.
merge_prev(m, bp, size) ==
    LET sz == size + GET_SIZE(m, HDRP(PREV_BLKP(m, bp)))
    IN  PUT_PREV_HDR(PUT_FTR(Touch(Touch(m, {bp - DSIZE, bp - WSIZE}),
                                   {HDRP(PREV_BLKP(m, bp))}),
                             bp, PACK(sz, 0)),
                     bp, PACK(sz, 0))

\* coalesce, lines 303-307: case 4's size, header and footer.
merge_both(m, bp, size) ==
    LET sz == size + GET_SIZE(m, HDRP(PREV_BLKP(m, bp)))
                   + GET_SIZE(m, FTRP(m, NEXT_BLKP(m, bp)))
    IN  PUT_NEXT_FTR(
            PUT_PREV_HDR(
                Touch(Touch(Touch(m, {bp - DSIZE, bp - WSIZE}),
                            {HDRP(PREV_BLKP(m, bp)), HDRP(NEXT_BLKP(m, bp))}),
                      {FTRP(m, NEXT_BLKP(m, bp))}),
                bp, PACK(sz, 0)),
            bp, PACK(sz, 0))

\* bp = PREV_BLKP(bp); return bp
at_prev(m, bp) == Ret(m, PREV_BLKP(m, bp))

\* coalesce, lines 266-313.
coalesce(m, bp) ==
    LET prev_alloc == GET_ALLOC(m, FTRP(m, PREV_BLKP(m, bp)))
        next_alloc == GET_ALLOC(m, HDRP(NEXT_BLKP(m, bp)))
        size == GET_SIZE(m, HDRP(bp))
        m1 == Touch(Touch(Touch(m, {bp - DSIZE, bp - WSIZE}),
                          {HDRP(PREV_BLKP(m, bp)), HDRP(NEXT_BLKP(m, bp))}),
                    {FTRP(m, PREV_BLKP(m, bp))})
    IN  IF m1.out # "ok" THEN Ret(m1, bp)
        ELSE IF prev_alloc = 1 /\ next_alloc = 1 THEN Ret(m, bp)
        ELSE IF prev_alloc = 1 /\ next_alloc = 0
             THEN Ret(merge_next(unlink_next(m, bp), bp, size), bp)
        ELSE IF prev_alloc = 0 /\ next_alloc = 1
             THEN at_prev(merge_prev(unlink_prev(m, bp), bp, size), bp)
        ELSE at_prev(merge_both(unlink_prev(unlink_next(m, bp), bp), bp, size), bp)

\* The host's growth primitive (memlib's mem_sbrk, included at line 37): the
\* region grows by incr bytes and the old break is returned, or nothing
\* changes and (void *)-1 is returned.  max is the break the host can reach;
\* an incr of 2^63 or more (a negative representative) is beyond any host.
mem_sbrk(m, incr) ==
    IF incr >= 0 /\ m.brk + incr <= m.max
    THEN Ret([m EXCEPT !.brk = m.brk + incr], m.brk)
    ELSE Ret([m EXCEPT !.fail = TRUE], SbrkFail)

\* extend_heap, lines 384-393: the new free block, the new epilogue, the
\* list and the coalescing.
new_block(m, bp, size) ==
    coalesce(freelist_add(PUT_NEXT_HDR(PUT_FTR(PUT_HDR(m, bp, PACK(size, 0)),
                                               bp, PACK(size, 0)),
                                       bp, PACK(0, 1)),
                          bp),
             bp)

\* extend_heap, lines 373-394.  words is extendsize / WSIZE for a size_t
\* extendsize; for a negative representative it stands for 2^62 + words.
extend_heap(m, words) ==
    LET size == IF words % 2 = 1 THEN (words + 1) * WSIZE ELSE words * WSIZE
        s    == mem_sbrk(m, size)
    IN  IF s.r = SbrkFail THEN Ret(s.m, NULL) ELSE new_block(s.m, s.r, size)

\* mm_init, lines 141-147: padding, prologue and epilogue at p; heap_listp
\* and first_free at the prologue.
empty_heap(m, p) ==
    [PUT(PUT(PUT(PUT(m, p, 0), p + 1 * WSIZE, PACK(DSIZE, 1)),
             p + 2 * WSIZE, PACK(DSIZE, 1)),
         p + 3 * WSIZE, PACK(0, 1))
     EXCEPT !.hl = p + 2 * WSIZE, !.ff = p + 2 * WSIZE]

\* mm_init, lines 150-152.
init_result(e) == Ret(e.m, IF e.r = NULL THEN -1 ELSE 0)

\* mm_init without the word of alignment padding, for the check of C13.
unpadded_heap(m, p) ==
    [PUT(PUT(PUT(m, p, PACK(DSIZE, 1)), p + 1 * WSIZE, PACK(DSIZE, 1)),
         p + 2 * WSIZE, PACK(0, 1))
     EXCEPT !.hl = p + 1 * WSIZE, !.ff = p + 1 * WSIZE]

mm_init_unpadded(m) ==
    IF mem_sbrk(m, 3 * WSIZE).r = SbrkFail
    THEN Ret([mem_sbrk(m, 3 * WSIZE).m EXCEPT !.hl = SbrkFail], -1)
    ELSE init_result(extend_heap(unpadded_heap(mem_sbrk(m, 3 * WSIZE).m, m.brk),
                                 CHUNKSIZE \div WSIZE))

\* mm_init, lines 135-153.  The return value is 0 or -1.
mm_init(m) ==
    LET s == mem_sbrk(m, 4 * WSIZE)
    IN  IF s.r = SbrkFail THEN Ret([s.m EXCEPT !.hl = s.r], -1)
        ELSE init_result(extend_heap(empty_heap(s.m, s.r), CHUNKSIZE \div WSIZE))

\* find_fit, lines 444-456.  A walk that comes back to a block it left
\* never ends.
RECURSIVE fit_from(_, _, _, _)
fit_from(m, bp, asize, seen) ==
    IF bp = m.hl THEN Ret(m, NULL)
    ELSE IF ~Valid(m, HDRP(bp)) THEN Ret([m EXCEPT !.out = "crash"], NULL)
    ELSE IF GET_ALLOC(m, HDRP(bp)) = 0 /\ ULE(asize, GET_SIZE(m, HDRP(bp)))
         THEN Ret(m, bp)
    ELSE IF ~Valid(m, bp + WSIZE) THEN Ret([m EXCEPT !.out = "crash"], NULL)
    ELSE IF GET_SUCC(m, bp) \in seen \cup {bp}
         THEN Ret([m EXCEPT !.out = "hang"], NULL)
    ELSE fit_from(m, GET_SUCC(m, bp), asize, seen \cup {bp})

find_fit(m, asize) == fit_from(m, m.ff, asize, {})

\* place, lines 400-439.  csize - asize is unsigned: a negative difference
\* is a huge one.
place(m, bp, asize) ==
    LET csize == GET_SIZE(m, HDRP(bp))
        pred  == GET_PRED(m, bp)
        succ  == GET_SUCC(m, bp)
        \* the split, lines 407-425
        s5(a, new_bp) == SET_PRED(a, new_bp, pred)
        s6(a, new_bp) == SET_SUCC(a, new_bp, succ)
        s7(a, new_bp) == IF pred # a.hl THEN SET_SUCC(a, pred, new_bp) ELSE a
        s8(a, new_bp) == IF succ # a.hl THEN SET_PRED(a, succ, new_bp) ELSE a
        s9(a, new_bp) == IF a.out = "ok" /\ bp = a.ff
                         THEN [a EXCEPT !.ff = new_bp] ELSE a
        rest(a, new_bp) ==
            s9(s8(s7(s6(s5(PUT_FTR(PUT_HDR(a, new_bp, PACK(csize - asize, 0)),
                                   new_bp, PACK(csize - asize, 0)),
                           new_bp), new_bp), new_bp), new_bp), new_bp)
        split(a) == rest(a, NEXT_BLKP(a, bp))
        \* the whole block, lines 426-438
        t3(a) == [a EXCEPT !.ff = succ]
        t4(a) == IF succ # a.hl THEN SET_PRED(a, a.ff, a.hl) ELSE a
        unlink(a) ==
            IF a.out # "ok" THEN a
            ELSE IF pred = a.hl THEN t4(t3(a))
            ELSE IF succ # a.hl THEN SET_PRED(SET_SUCC(a, pred, succ), succ, pred)
            ELSE SET_SUCC(a, pred, succ)
    IN  IF ULE(3 * DSIZE, csize - asize)
        THEN split(PUT_FTR(PUT_HDR(Touch(m, {HDRP(bp), bp, bp + WSIZE}),
                                   bp, PACK(asize, 1)),
                           bp, PACK(asize, 1)))
        ELSE unlink(PUT_FTR(PUT_HDR(Touch(m, {HDRP(bp), bp, bp + WSIZE}),
                                    bp, PACK(csize, 1)),
                            bp, PACK(csize, 1)))

\* The adjusted block size of malloc, lines 171-175.  DSIZE * (x / DSIZE)
\* for a size_t x is DSIZE * (x \div DSIZE) on representatives, since DSIZE
\* divides 2^64.
AdjustedSize(size) ==
    IF ULE(size, MINBLKSIZE) THEN 3 * DSIZE
    ELSE DSIZE * ((size + DSIZE + (DSIZE - 1)) \div DSIZE)

\* malloc, lines 164-166, and free, lines 204-206: the heap is initialized
\* by the first call that finds heap_listp null; mm_init's result is dropped.
lazy_init(m) == IF m.hl = 0 THEN mm_init(m).m ELSE m

\* malloc, lines 179-181 and 188-190: place(bp, asize); return bp, for the
\* block x.r that find_fit or extend_heap returned (NULL: return NULL).
place_found(x, asize) ==
    IF x.r = NULL THEN Ret(x.m, NULL) ELSE Ret(place(x.m, x.r, asize), x.r)

\* malloc extending by CHUNKSIZE whatever asize is, for the check of C14.
extend_by_chunk(f, asize) ==
    IF f.m.out # "ok" THEN Ret(f.m, NULL)
    ELSE IF f.r # NULL THEN place_found(f, asize)
    ELSE place_found(extend_heap(f.m, CHUNKSIZE \div WSIZE), asize)

\* malloc, lines 177-190, for the outcome f of find_fit.
place_or_extend(f, asize) ==
    IF f.m.out # "ok" THEN Ret(f.m, NULL)
    ELSE IF f.r # NULL THEN place_found(f, asize)
    ELSE place_found(extend_heap(f.m, MAX(asize, CHUNKSIZE) \div WSIZE), asize)

\* malloc, lines 167-190, on an initialized heap.
malloc_body(m, size) ==
    IF size = 0 THEN Ret(m, NULL)
    ELSE place_or_extend(find_fit(m, AdjustedSize(size)), AdjustedSize(size))

\* malloc, lines 158-191.
malloc(m, size) == malloc_body(lazy_init(m), size)

\* free without the test of lines 200-201, for the check of C12.
free_unguarded(m, bp) ==
    coalesce(freelist_add(PUT_FTR(PUT_HDR(lazy_init(Touch(m, {HDRP(bp)})),
                                          bp, PACK(GET_SIZE(m, HDRP(bp)), 0)),
                                  bp, PACK(GET_SIZE(m, HDRP(bp)), 0)),
                          bp),
             bp).m

\* free, lines 198-214.
free(m, bp) ==
    LET size == GET_SIZE(m, HDRP(bp))
    IN  IF bp = 0 THEN m
        ELSE coalesce(freelist_add(PUT_FTR(PUT_HDR(lazy_init(Touch(m, {HDRP(bp)})),
                                                   bp, PACK(size, 0)),
                                           bp, PACK(size, 0)),
                                   bp),
                      bp).m

----------------------------------------------------------------------------
\* Bytes.  The build is little-endian: byte k of a word is its k-th base-256
\* digit.
ByteOf(w, k) == (w \div (256 ^ k)) % 256
ByteAt(m, a) == ByteOf(GET(m, a - (a % WSIZE)), a % WSIZE)
\* word dst with its k low bytes taken from word src
Blend(dst, src, k) ==
    IF k >= WSIZE THEN src ELSE (dst - (dst % (256 ^ k))) + (src % (256 ^ k))

\* The n bytes from the word-aligned p on are bytes of the host's.  A
\* negative representative n is 2^63 bytes or more.
RangeValid(m, p, n) == p % WSIZE = 0 /\ p >= MemBase /\ n >= 0 /\ p + n <= m.max

\* memcpy(dst, src, n) of <string.h>.  A copy that leaves the region, or
\* whose source and destination overlap, is undefined.
memcpy(m, dst, src, n) ==
    LET full == n \div WSIZE
        rem  == n % WSIZE
        ok   == /\ RangeValid(m, dst, n) /\ RangeValid(m, src, n)
                /\ (dst + n <= src \/ src + n <= dst)
        new  == [i \in WordIdx |->
                   LET a == i * WSIZE IN
                   IF a >= dst /\ a < dst + WSIZE * full
                   THEN m.mem[(a - dst + src) \div WSIZE]
                   ELSE IF rem > 0 /\ a = dst + WSIZE * full
                   THEN Blend(m.mem[i], m.mem[(a - dst + src) \div WSIZE], rem)
                   ELSE m.mem[i]]
    IN  IF m.out # "ok" \/ n = 0 THEN m
        ELSE IF ok THEN [m EXCEPT !.mem = new]
        ELSE [m EXCEPT !.out = "crash"]

\* memset(p, 0, n) of <string.h>.
memset0(m, p, n) ==
    LET full == n \div WSIZE
        rem  == n % WSIZE
        new  == [i \in WordIdx |->
                   LET a == i * WSIZE IN
                   IF a >= p /\ a < p + WSIZE * full THEN 0
                   ELSE IF rem > 0 /\ a = p + WSIZE * full
                   THEN Blend(m.mem[i], 0, rem)
                   ELSE m.mem[i]]
    IN  IF m.out # "ok" \/ n = 0 THEN m
        ELSE IF RangeValid(m, p, n) THEN [m EXCEPT !.mem = new]
        ELSE [m EXCEPT !.out = "crash"]

\* realloc, lines 342-343: the number of bytes to copy.
oldsize(m, ptr, size) ==
    IF ULT(size, GET_SIZE(m, HDRP(ptr))) THEN size ELSE GET_SIZE(m, HDRP(ptr))

\* realloc, lines 340-349: copy, free the old block, return the new one.
move_block(a, ptr, size) ==
    IF a.m.out # "ok" \/ a.r = NULL THEN Ret(a.m, 0)
    ELSE Ret(free(memcpy(Touch(a.m, {HDRP(ptr)}), a.r, ptr,
                         oldsize(a.m, ptr, size)), ptr), a.r)

\* realloc, lines 318-350.
realloc(m, ptr, size) ==
    IF size = 0 THEN Ret(free(m, ptr), 0)
    ELSE IF ptr = NULL THEN malloc(m, size)
    ELSE move_block(malloc(m, size), ptr, size)

\* calloc, lines 361-363: memset runs whatever malloc returned.
zero_block(a, bytes) == Ret(memset0(a.m, a.r, bytes), a.r)

\* calloc, lines 355-364.
calloc(m, nmemb, size) == zero_block(malloc(m, nmemb * size), nmemb * size)

----------------------------------------------------------------------------
\* The heap checker.  It writes nothing; an operator of it gives how the
\* call ends: "ok" (it returns), "exit" (it reports a violation and calls
\* exit(0)), "crash" or "hang".

\* in_freelist, lines 515-524: the walk from list_ptr on, looking for bp.
RECURSIVE in_list_from(_, _, _, _)
in_list_from(m, list_ptr, bp, seen) ==
    IF list_ptr = m.hl THEN "exit"
    ELSE IF list_ptr = bp THEN "ok"
    ELSE IF ~Valid(m, list_ptr + WSIZE) THEN "crash"
    ELSE IF GET_SUCC(m, list_ptr) \in seen \cup {list_ptr} THEN "hang"
    ELSE in_list_from(m, GET_SUCC(m, list_ptr), bp, seen \cup {list_ptr})

\* checkblock, lines 502-505: "ok" when in_freelist(bp) returns 1, "exit"
\* when it returns 0.
in_freelist(m, bp) == in_list_from(m, m.ff, bp, {})

\* checkblock, lines 501-511, for a block whose header says free.
check_free(m, bp) ==
    IF in_freelist(m, bp) # "ok" THEN in_freelist(m, bp)
    ELSE IF ~Valid(m, bp + WSIZE) THEN "crash"
    ELSE IF GET_SUCC(m, bp) = bp THEN "exit"
    ELSE "ok"

\* checkblock, lines 491-512.
checkblock(m, bp) ==
    IF bp % 8 # 0 THEN "exit"
    ELSE IF ~Valid(m, HDRP(bp)) \/ ~Valid(m, FTRP(m, bp)) THEN "crash"
    ELSE IF GET(m, HDRP(bp)) # GET(m, FTRP(m, bp)) THEN "exit"
    ELSE IF GET_ALLOC(m, HDRP(bp)) = 0 THEN check_free(m, bp)
    ELSE "ok"

\* printblock, lines 472-489: it reads the header and the footer.
printblock(m, bp) ==
    IF ~Valid(m, HDRP(bp)) \/ ~Valid(m, FTRP(m, bp)) THEN "crash" ELSE "ok"

\* mm_checkheap, lines 548-553: the block the walk stopped at.
check_epilogue(m, bp, verbose) ==
    IF verbose # 0 /\ printblock(m, bp) # "ok" THEN "crash"
    ELSE IF GET_SIZE(m, HDRP(bp)) # 0 \/ GET_ALLOC(m, HDRP(bp)) = 0 THEN "exit"
    ELSE "ok"

\* mm_checkheap, lines 542-553: the walk from bp on.
RECURSIVE check_from(_, _, _)
check_from(m, bp, verbose) ==
    IF ~Valid(m, HDRP(bp)) THEN "crash"
    ELSE IF GET_SIZE(m, HDRP(bp)) = 0 THEN check_epilogue(m, bp, verbose)
    ELSE IF verbose # 0 /\ printblock(m, bp) # "ok" THEN "crash"
    ELSE IF checkblock(m, bp) # "ok" THEN checkblock(m, bp)
    ELSE check_from(m, NEXT_BLKP(m, bp), verbose)

\* mm_checkheap, lines 529-555.
mm_checkheap(m, verbose) ==
    IF ~Valid(m, HDRP(m.hl)) THEN "crash"
    ELSE IF GET_SIZE(m, HDRP(m.hl)) # DSIZE \/ GET_ALLOC(m, HDRP(m.hl)) = 0
         THEN "exit"
    ELSE check_from(m, m.hl, verbose)

----------------------------------------------------------------------------
\* The state: the host region, its break and its limit (memlib), the two
\* globals of mm.c (lines 112-113), and what the caller holds.
VARIABLES
    mem,          \* the words of the host region, by word index
    mem_brk,      \* the break: the region obtained so far is [MemBase, mem_brk)
    mem_max_addr, \* the break the host can reach at most
    heap_listp,   \* line 112
    first_free,   \* line 113
    status,       \* "ok", or how the process ended: "crash", "hang", "exit"
    live,         \* the caller's blocks: <<address, requested size>>
    last,         \* the last call of the allocation interface and its result
    calls,        \* the number of calls of the allocation interface made
    reqs          \* the request sizes the caller uses

vars == <<mem, mem_brk, mem_max_addr, heap_listp, first_free, status, live,
          last, calls, reqs>>
alloc_vars == <<mem, mem_brk, heap_listp, first_free>>

\* Request sizes.  InRange: 0, at and above MINBLKSIZE, one that fills a
\* whole chunk and one that needs more than a chunk.  Wrapping: 2^64-1,
\* 2^64-15 and 2^64-16.
InRangeSizes == {0, 2 * DSIZE, 2 * DSIZE + 1, CHUNKSIZE - 12, CHUNKSIZE - 7}
WrappingSizes == {0 - 1, 0 - 15, 0 - 16}
\* realloc's sizes
ReallocSizes == {0, 2 * DSIZE + 1, 0 - 1}
\* calloc's (nmemb, size)
CallocArgs == {<<2, DSIZE>>, <<1, CHUNKSIZE - 12>>}

\* What a word of the region holds before the program stores in it: nothing
\* is known of it.  Two values stand for all: 0, and 0x5A in every byte.
Pattern == 90 * (1 + 256 + 256 ^ 2 + 256 ^ 3)
FreshWords == {0, Pattern}

\* The limits a host may have: no room at all, room for the four words of
\* mm_init, for these and one chunk, or for all of the region (the initial
\* heap and an extension of a chunk and a double word).
HostLimits ==
    {MemBase, MemBase + 4 * WSIZE, MemBase + 4 * WSIZE + CHUNKSIZE, HostMax}

Machine ==
    [mem |-> mem, brk |-> mem_brk, max |-> mem_max_addr, hl |-> heap_listp,
     ff |-> first_free, out |-> "ok", fail |-> FALSE, wild |-> FALSE]

Commit(m) ==
    /\ mem' = m.mem
    /\ mem_brk' = m.brk
    /\ heap_listp' = m.hl
    /\ first_free' = m.ff
    /\ status' = m.out

\* A call: its arguments (n and a: count and size, p: pointer), the size S
\* that p's header held when the call was made, the value returned and
\* whether a mem_sbrk of the call was refused.
Call(op, n, a, p, S, ret, fail) ==
    [op |-> op, n |-> n, a |-> a, p |-> p, S |-> S, ret |-> ret, fail |-> fail]

\* The state after the host region is set up and before any call.
Fresh ==
    /\ \E w \in FreshWords : mem = [i \in WordIdx |-> w]
    /\ mem_brk = MemBase
    /\ mem_max_addr \in HostLimits
    /\ heap_listp = 0
    /\ first_free = 0
    /\ status = "ok"
    /\ live = {}
    /\ last = Call("none", 0, 0, NULL, 0, 0, FALSE)
    /\ calls = 0

\* Every request size a caller may pass, the wrapping ones among them.
Init == Fresh /\ reqs = InRangeSizes \cup WrappingSizes
\* The caller's requests stay below 2^64 - 16.
InitInRange == Fresh /\ reqs = InRangeSizes

\* What every call shares: the process is running and the caller has calls
\* left.
Step ==
    /\ status = "ok"
    /\ calls < MaxCalls
    /\ calls' = calls + 1
    /\ UNCHANGED <<mem_max_addr, reqs>>

\* initialize: the driver calls mm_init on a fresh host region.
Initialize ==
    /\ Step
    /\ heap_listp = 0
    /\ \E r \in {mm_init(Machine)} :
        /\ Commit(r.m)
        /\ last' = Call("init", 0, 0, NULL, 0, r.r, r.m.fail)
    /\ UNCHANGED live

\* allocate
Allocate(size) ==
    /\ Step
    /\ Cardinality(live) < MaxLive
    /\ \E r \in {malloc(Machine, size)} :
        /\ Commit(r.m)
        /\ live' = IF r.m.out = "ok" /\ r.r # NULL
                   THEN live \cup {<<r.r, size>>} ELSE live
        /\ last' = Call("malloc", 1, size, NULL, 0, r.r, r.m.fail)

\* The null pointer as a block of the caller's.
NullBlock == <<NULL, 0>>

\* deallocate, of a block the caller holds or of the null pointer
Deallocate(b) ==
    /\ Step
    /\ \E m \in {free(Machine, b[1])} :
        /\ Commit(m)
        /\ last' = Call("free", 0, 0, b[1], GET_SIZE(Machine, HDRP(b[1])), 0, m.fail)
    /\ live' = live \ {b}

\* reallocate, of a block the caller holds or of the null pointer
Reallocate(b, size) ==
    /\ Step
    /\ b = NullBlock => Cardinality(live) < MaxLive
    /\ \E r \in {realloc(Machine, b[1], size)} :
        /\ Commit(r.m)
        /\ live' = IF r.m.out # "ok" THEN live
                   ELSE IF size = 0 THEN live \ {b}
                   ELSE IF r.r = NULL THEN live
                   ELSE (live \ {b}) \cup {<<r.r, size>>}
        /\ last' = Call("realloc", 1, size, b[1], GET_SIZE(Machine, HDRP(b[1])),
                        r.r, r.m.fail)

\* zero_allocate
ZeroAllocate(nmemb, size) ==
    /\ Step
    /\ Cardinality(live) < MaxLive
    /\ \E r \in {calloc(Machine, nmemb, size)} :
        /\ Commit(r.m)
        /\ live' = IF r.m.out = "ok" /\ r.r # NULL
                   THEN live \cup {<<r.r, nmemb * size>>} ELSE live
        /\ last' = Call("calloc", nmemb, size, NULL, 0, r.r, r.m.fail)

\* check_heap.  It writes nothing and returns nothing: the state after it
\* differs only when the process ends in it.  It is no call of the
\* allocation interface, which calls and last record.
CheckHeap(verbose) ==
    /\ status = "ok"
    /\ status' = mm_checkheap(Machine, verbose)
    /\ UNCHANGED <<mem, mem_brk, mem_max_addr, heap_listp, first_free, live,
                   last, calls, reqs>>

Next ==
    \/ Initialize
    \/ \E verbose \in {0, 1} : CheckHeap(verbose)
    \/ \E size \in reqs : Allocate(size)
    \/ \E b \in live \cup {NullBlock} : Deallocate(b)
    \/ \E b \in live \cup {NullBlock}, size \in reqs \cap ReallocSizes : Reallocate(b, size)
    \/ \E c \in CallocArgs : ZeroAllocate(c[1], c[2])

Spec == Init /\ [][Next]_vars
SpecInRange == InitInRange /\ [][Next]_vars

----------------------------------------------------------------------------
\* Reading the heap: what mm_checkheap's walks (lines 529-555) visit.

\* The state a step leads to, as a machine.
MachineNext ==
    [mem |-> mem', brk |-> mem_brk', max |-> mem_max_addr', hl |-> heap_listp',
     ff |-> first_free', out |-> "ok", fail |-> FALSE, wild |-> FALSE]

\* mm_init has set the heap up.
Initialized(m) == m.hl > 0

\* The blocks of the heap, the prologue apart.
Blocks(m) == IF Initialized(m) THEN blocks_from(m, m.hl + DSIZE) ELSE {}

IsFree(m, bp) == GET_ALLOC(m, HDRP(bp)) = 0
FreeBlocks(m) == {bp \in Blocks(m) : IsFree(m, bp)}

\* The free list from bp on, by successor links, up to the sentinel; ok says
\* that the walk reached the sentinel without leaving the region and without
\* coming back to a block.
RECURSIVE list_from(_, _, _)
list_from(m, bp, seen) ==
    IF bp = m.hl THEN [nodes |-> seen, ok |-> TRUE]
    ELSE IF bp \in seen \/ ~Valid(m, bp + WSIZE) \/ ~Valid(m, HDRP(bp))
         THEN [nodes |-> seen, ok |-> FALSE]
    ELSE list_from(m, GET_SUCC(m, bp), seen \cup {bp})

FreeList(m) == list_from(m, m.ff, {})

\* The block whose bytes (header to footer) hold the address p.
Holds(m, bp, p) == bp - WSIZE <= p /\ p < bp - WSIZE + GET_SIZE(m, HDRP(bp))
BlockOf(m, p) ==
    IF \E bp \in Blocks(m) : Holds(m, bp, p)
    THEN CHOOSE bp \in Blocks(m) : Holds(m, bp, p)
    ELSE NULL

\* The bytes a caller's block <<p, size>> may use lie between the prologue
\* and the epilogue, and so does the payload of the heap block at p.
InHeap(m, b) ==
    /\ b[1] >= m.hl + DSIZE
    /\ b[2] >= 0
    /\ b[1] + b[2] <= m.brk - WSIZE
    /\ b[1] \in Blocks(m)
Payload(m, b) ==
    LET cap == GET_SIZE(m, HDRP(b[1])) - DSIZE
    IN  b[1] .. (b[1] + (IF b[2] > cap THEN b[2] ELSE cap) - 1)

\* The step is a call of the allocation interface, of one of the operations
\* ops.
Calls(ops) == calls' = calls + 1 /\ last'.op \in ops

-----------------------------------------------------------------------------
\* C1: after any sequence of calls, the payloads of two distinct live blocks
\* do not intersect, and each lies inside the heap between the prologue and
\* the epilogue.
C1_LivePayloadsDisjoint ==
    status = "ok" =>
        \A b \in live :
            /\ InHeap(Machine, b)
            /\ \A c \in live \ {b} : Payload(Machine, b) \cap Payload(Machine, c) = {}

\* C2: after every completed operation the blocks reached from first_free by
\* successor links are exactly the heap blocks whose header says free; the
\* walk meets no block twice and ends at the sentinel.
C2_FreeListIsFreeBlocks ==
    (status = "ok" /\ Initialized(Machine)) =>
        /\ FreeList(Machine).ok
        /\ FreeList(Machine).nodes = FreeBlocks(Machine)

\* The size of the span that free(p) makes free: p's block and those of its
\* two neighbours that are free.
MergedSize(m, p) ==
    GET_SIZE(m, HDRP(p))
    + (IF GET_ALLOC(m, p - DSIZE) = 0 THEN GET_SIZE(m, p - DSIZE) ELSE 0)
    + (IF GET_ALLOC(m, HDRP(NEXT_BLKP(m, p))) = 0
       THEN GET_SIZE(m, HDRP(NEXT_BLKP(m, p))) ELSE 0)

NoAdjacentFree(m) ==
    \A bp \in FreeBlocks(m) : NEXT_BLKP(m, bp) \notin FreeBlocks(m)

\* C3: after every operation no two physically adjacent blocks are both
\* free, and deallocate(p) leaves p inside one free block whose size is the
\* sum of the sizes of p's block and of its free neighbours.
C3_Coalesced ==
    [][(status' = "ok" /\ Initialized(MachineNext)) =>
          /\ NoAdjacentFree(MachineNext)
          /\ (Calls({"free"}) /\ last'.p # NULL) =>
                LET b == BlockOf(MachineNext, last'.p) IN
                /\ b # NULL
                /\ IsFree(MachineNext, b)
                /\ GET_SIZE(MachineNext, HDRP(b)) = MergedSize(Machine, last'.p)
      ]_vars

\* C4: between operations every block's header word equals its footer word,
\* every block size is a multiple of 8, and every block but the prologue and
\* the epilogue has at least 24 bytes.
C4_BoundaryTags ==
    (status = "ok" /\ Initialized(Machine)) =>
        \A bp \in Blocks(Machine) :
            /\ Valid(Machine, FTRP(Machine, bp))
            /\ GET(Machine, HDRP(bp)) = GET(Machine, FTRP(Machine, bp))
            /\ GET_SIZE(Machine, HDRP(bp)) % ALIGNMENT = 0
            /\ GET_SIZE(Machine, HDRP(bp)) >= 3 * DSIZE

\* The blocks whose header says allocated.
AllocatedBlocks(m) == Blocks(m) \ FreeBlocks(m)

\* C5: when mem_sbrk fails during allocate or reallocate, the call returns
\* null and the allocator's state (the words of the heap, the heap's length,
\* heap_listp and first_free) is what it was before the call.
C5_FailureChangesNothing ==
    [][(Calls({"malloc", "realloc"}) /\ last'.fail) =>
          /\ status' = "ok"
          /\ last'.ret = NULL
          /\ UNCHANGED alloc_vars
          /\ live' = live
      ]_vars

\* C6: when mem_sbrk fails during zero_allocate(count, size) with
\* count * size > 0, the call returns null, writes nothing through the null
\* address and allocates no block.
C6_ZeroAllocateFailure ==
    [][(Calls({"calloc"}) /\ last'.fail /\ last'.n * last'.a > 0) =>
          /\ status' = "ok"
          /\ last'.ret = NULL
          /\ live' = live
          /\ AllocatedBlocks(MachineNext) = AllocatedBlocks(Machine)
      ]_vars

\* The state a step leads to is the machine m.
LeadsTo(m) ==
    /\ mem' = m.mem
    /\ mem_brk' = m.brk
    /\ heap_listp' = m.hl
    /\ first_free' = m.ff
    /\ status' = m.out

\* The first n bytes at q after the step are the first n bytes at p before it.
SameBytes(q, p, n) ==
    \A i \in 0 .. (n - 1) : ByteAt(MachineNext, q + i) = ByteAt(Machine, p + i)

\* The smaller of two size_t values.
UMIN(x, y) == IF ULT(x, y) THEN x ELSE y

\* C7: reallocate(p, size) with p live and size > 0 that succeeds returns a
\* new live block whose first min(old payload size, size) bytes are those
\* of p's payload before the call, and p's old block is free and in the free
\* list; reallocate(p, 0) is deallocate(p) and returns null;
\* reallocate(null, size) is allocate(size).
C7_Reallocate ==
    [][Calls({"realloc"}) =>
          /\ (last'.p # NULL /\ last'.a # 0 /\ last'.ret # NULL /\ status' = "ok") =>
                /\ last'.ret # last'.p
                /\ <<last'.ret, last'.a>> \in live'
                /\ SameBytes(last'.ret, last'.p, UMIN(last'.S - DSIZE, last'.a))
                /\ LET b == BlockOf(MachineNext, last'.p) IN
                    /\ b # NULL
                    /\ IsFree(MachineNext, b)
                    /\ b \in FreeList(MachineNext).nodes
          /\ (last'.p # NULL /\ last'.a = 0) =>
                /\ last'.ret = NULL
                /\ LeadsTo(free(Machine, last'.p))
          /\ last'.p = NULL =>
                /\ last'.ret = malloc(Machine, last'.a).r
                /\ LeadsTo(malloc(Machine, last'.a).m)
      ]_vars

\* The adjusted size the claim states, for a size below 2^63.
StatedAdjustedSize(size) ==
    IF size <= 2 * DSIZE THEN 3 * DSIZE
    ELSE DSIZE * ((size + DSIZE - 1) \div DSIZE) + DSIZE

\* C8: for a request of size > 0 the block allocate returns has a payload of
\* at least size bytes, its size being at least the adjusted size: 24 when
\* size <= 16, else size rounded up to a multiple of 8, plus 8; a request of
\* size 0 returns null and changes no state.
C8_Capacity ==
    [][Calls({"malloc"}) =>
          /\ (last'.a # 0 /\ last'.ret # NULL /\ status' = "ok") =>
                /\ last'.a > 0
                /\ AdjustedSize(last'.a) = StatedAdjustedSize(last'.a)
                /\ GET_SIZE(MachineNext, HDRP(last'.ret)) >= AdjustedSize(last'.a)
                /\ GET_SIZE(MachineNext, HDRP(last'.ret)) - DSIZE >= last'.a
          /\ last'.a = 0 => (last'.ret = NULL /\ UNCHANGED alloc_vars)
      ]_vars

\* C9: after deallocate(p) of a block of size S, an immediately following
\* allocate whose adjusted size is at most S succeeds without a call of
\* mem_sbrk growing the heap.
C9_ReuseWithoutGrowth ==
    [][(/\ last.op = "free" /\ last.p # NULL
        /\ Calls({"malloc"}) /\ last'.a # 0
        /\ ULE(AdjustedSize(last'.a), last.S)) =>
          /\ status' = "ok"
          /\ last'.ret # NULL
          /\ mem_brk' = mem_brk
      ]_vars

\* C10: after deallocate(p) the free block that holds p is the head of the
\* free list (p itself when p's physical predecessor is allocated), and an
\* immediately following allocate whose adjusted size fits that block
\* returns its address.
C10_FreedBlockIsHead ==
    [][/\ (Calls({"free"}) /\ last'.p # NULL /\ status' = "ok") =>
            LET b == BlockOf(MachineNext, last'.p) IN
            /\ b # NULL
            /\ IsFree(MachineNext, b)
            /\ first_free' = b
            /\ GET_ALLOC(Machine, last'.p - DSIZE) = 1 => b = last'.p
       /\ (/\ last.op = "free" /\ last.p # NULL
           /\ Calls({"malloc"}) /\ last'.a # 0
           /\ BlockOf(Machine, last.p) # NULL
           /\ ULE(AdjustedSize(last'.a),
                  GET_SIZE(Machine, HDRP(BlockOf(Machine, last.p))))) =>
            /\ status' = "ok"
            /\ last'.ret = BlockOf(Machine, last.p)
      ]_vars

\* C11: in every state with the heap set up that initialize, allocate,
\* deallocate, reallocate and zero_allocate calls lead to, check_heap (the
\* one step that leaves calls as it is) returns: it neither reports a
\* violation and exits, nor faults, nor loops for ever; and it changes no
\* word of the heap, neither global and not the heap's length.
C11_CheckHeapPasses ==
    [][(calls' = calls /\ Initialized(Machine)) =>
          (status' = "ok" /\ UNCHANGED alloc_vars)]_vars

\* C12: deallocate(null) returns and changes nothing: every word of the
\* heap (headers, footers, links), first_free, heap_listp and the heap's
\* length are after the call what they were before it.
C12_FreeNullChangesNothing ==
    [][(Calls({"free"}) /\ last'.p = NULL) =>
          (status' = "ok" /\ UNCHANGED alloc_vars /\ live' = live)]_vars

\* deallocate(null) has been called on a heap that holds a live block and a
\* free one.
C12_FreeNullCalled ==
    /\ status = "ok"
    /\ last.op = "free"
    /\ last.p = NULL
    /\ live # {}
    /\ FreeBlocks(Machine) # {}

StatedChunk == 4096

\* An even number of words holding n bytes, in bytes (extend_heap's rounding).
WordAligned(n) == IF (n \div WSIZE) % 2 = 1 THEN n + WSIZE ELSE n

\* A call of malloc that finds no fit for its adjusted size, in the heap as
\* it is once initialized, and that mem_sbrk refuses nothing.
NoFitAndRoom ==
    /\ Calls({"malloc"})
    /\ last'.a # 0
    /\ find_fit(lazy_init(Machine), AdjustedSize(last'.a)).m.out = "ok"
    /\ find_fit(lazy_init(Machine), AdjustedSize(last'.a)).r = NULL
    /\ ~last'.fail

\* C14 as stated: when allocate finds no fit it extends the heap by exactly
\* max(asize, 4096) bytes, rounded to word alignment.
C14_ExtendsByStatedChunk ==
    [][NoFitAndRoom =>
          mem_brk' - lazy_init(Machine).brk
              = WordAligned(MAX(AdjustedSize(last'.a), StatedChunk))]_vars

\* C14 amended: when allocate finds no fit it extends the heap by exactly
\* max(asize, 512) bytes, rounded to word alignment.
C14_ExtendsByChunk ==
    [][NoFitAndRoom =>
          mem_brk' - lazy_init(Machine).brk
              = WordAligned(MAX(AdjustedSize(last'.a), CHUNKSIZE))]_vars

\* malloc of more than a chunk has returned a block from a heap of the initial
\* chunk and one extension of asize bytes.
C14_ExtendedByAsize ==
    /\ status = "ok"
    /\ last.op = "malloc"
    /\ last.a = CHUNKSIZE - 7
    /\ last.ret # NULL
    /\ mem_brk = MemBase + 4 * WSIZE + CHUNKSIZE + AdjustedSize(CHUNKSIZE - 7)

\* C15: reallocate(p, size) copies exactly min(old payload size, size) bytes,
\* the old payload size being the block's size less the 8 bytes of header and
\* footer; it reads nothing beyond the old block's payload.
C15_CopiesPayloadOnly ==
    [][(Calls({"realloc"}) /\ last'.p # NULL /\ last'.a # 0
        /\ last'.ret # NULL /\ status' = "ok") =>
          /\ oldsize(malloc(Machine, last'.a).m, last'.p, last'.a)
                = UMIN(last'.S - DSIZE, last'.a)
          /\ ULE(oldsize(malloc(Machine, last'.a).m, last'.p, last'.a),
                 last'.S - DSIZE)
      ]_vars

\* realloc has moved a block to a larger one.
C15_MovedToLarger ==
    /\ status = "ok"
    /\ last.op = "realloc"
    /\ last.p # NULL
    /\ last.ret # NULL
    /\ last.a > last.S - DSIZE

\* The free list in list order from bp on, by successor links: the blocks up
\* to the sentinel, or up to where the walk leaves the region or comes back
\* to a block.
RECURSIVE order_from(_, _, _)
order_from(m, bp, acc) ==
    IF bp = m.hl \/ ~Valid(m, bp + WSIZE) \/ ~Valid(m, HDRP(bp))
       \/ \E i \in DOMAIN acc : acc[i] = bp
    THEN acc
    ELSE order_from(m, GET_SUCC(m, bp), Append(acc, bp))

ListOrder(m) == order_from(m, m.ff, <<>>)

\* The first block of the list, in list order, whose size is asize or more;
\* NULL when the list has none.
FirstOfSize(m, asize) ==
    LET L == ListOrder(m)
        I == {i \in DOMAIN L : ULE(asize, GET_SIZE(m, HDRP(L[i])))}
    IN  IF I = {} THEN NULL ELSE L[CHOOSE i \in I : \A j \in I : i <= j]

\* C16: find_fit(asize) returns the first block in list order whose size is
\* asize or more, and none exactly when the list has no such block; the
\* block allocate returns when the list has one is that block.
C16_FirstFit ==
    [][(Calls({"malloc"}) /\ last'.a # 0) =>
          /\ find_fit(lazy_init(Machine), AdjustedSize(last'.a)).m.out = "ok"
          /\ find_fit(lazy_init(Machine), AdjustedSize(last'.a)).r
                = FirstOfSize(lazy_init(Machine), AdjustedSize(last'.a))
          /\ FirstOfSize(lazy_init(Machine), AdjustedSize(last'.a)) # NULL =>
                last'.ret = FirstOfSize(lazy_init(Machine), AdjustedSize(last'.a))
      ]_vars

\* malloc has returned a block of the initial chunk while the head of the
\* list is a block too small for the request: the search went past the head.
C16_WentPastHead ==
    /\ status = "ok"
    /\ last.op = "malloc"
    /\ last.ret # NULL
    /\ mem_brk = MemBase + 4 * WSIZE + CHUNKSIZE
    /\ first_free # heap_listp
    /\ first_free # last.ret
    /\ GET_SIZE(Machine, HDRP(first_free)) < AdjustedSize(last.a)

\* malloc, lines 178-188, up to the call of place: the machine place starts
\* from and the block bp it is given, for a request of size bytes.
before_place(m, size) ==
    IF find_fit(lazy_init(m), AdjustedSize(size)).r # NULL
    THEN find_fit(lazy_init(m), AdjustedSize(size))
    ELSE extend_heap(find_fit(lazy_init(m), AdjustedSize(size)).m,
                     MAX(AdjustedSize(size), CHUNKSIZE) \div WSIZE)

\* The list L with block new_bp in the place of bp, and without bp.
Replaced(L, bp, new_bp) == [i \in DOMAIN L |-> IF L[i] = bp THEN new_bp ELSE L[i]]
Removed(L, bp) == SelectSeq(L, LAMBDA b : b # bp)

\* What place(bp, asize) is to leave, from the machine x.m before it with
\* bp = x.r, in the state after the call.
Placed(x, asize) ==
    IF ULE(3 * DSIZE, GET_SIZE(x.m, HDRP(x.r)) - asize)
    THEN /\ ListOrder(MachineNext) = Replaced(ListOrder(x.m), x.r, x.r + asize)
         /\ FreeList(MachineNext).ok
         /\ GET(MachineNext, HDRP(x.r)) = PACK(asize, 1)
         /\ GET(MachineNext, HDRP(x.r + asize))
               = PACK(GET_SIZE(x.m, HDRP(x.r)) - asize, 0)
    ELSE /\ ListOrder(MachineNext) = Removed(ListOrder(x.m), x.r)
         /\ FreeList(MachineNext).ok
         /\ GET(MachineNext, HDRP(x.r)) = PACK(GET_SIZE(x.m, HDRP(x.r)), 1)

\* C17: place(bp, asize) splits exactly when the block's size less asize is
\* 24 or more; the remainder then stands in the list where the block stood
\* (same neighbours, first_free moved with it) and the other blocks keep
\* their order; otherwise the whole block is allocated and taken out of the
\* list, the other blocks keeping their order.
C17_Place ==
    [][(Calls({"malloc"}) /\ last'.a # 0 /\ status' = "ok" /\ last'.ret # NULL) =>
          /\ before_place(Machine, last'.a).r = last'.ret
          /\ Placed(before_place(Machine, last'.a), AdjustedSize(last'.a))
      ]_vars

\* malloc has placed a request in a block that was not the head of the list:
\* a block of a lower address is still first_free and the list goes on past
\* the block returned.
C17_PlacedInMiddle ==
    /\ status = "ok"
    /\ last.op = "malloc"
    /\ last.ret # NULL
    /\ Len(ListOrder(Machine)) >= 2
    /\ first_free < last.ret
    /\ \E i \in DOMAIN ListOrder(Machine) : ListOrder(Machine)[i] > last.ret

\* C18: every write of a pred or succ link by freelist_add, place,
\* are_adjacent and not_adjacent goes to a block whose header says free at
\* that moment: never to the sentinel address and never into the payload of
\* an allocated block.
C18_LinksInFreeBlocks ==
    [][/\ Calls({"init"}) => ~mm_init(Machine).m.wild
       /\ Calls({"malloc"}) => ~malloc(Machine, last'.a).m.wild
       /\ Calls({"free"}) => ~free(Machine, last'.p).wild
       /\ Calls({"realloc"}) => ~realloc(Machine, last'.p, last'.a).m.wild
       /\ Calls({"calloc"}) => ~calloc(Machine, last'.n, last'.a).m.wild
      ]_vars

\* free has merged a block with a free neighbour while the list held other
\* blocks: the links of the list have been rewritten around the merged block.
C18_MergedInList ==
    /\ status = "ok"
    /\ last.op = "free"
    /\ last.p # NULL
    /\ GET_SIZE(Machine, HDRP(first_free)) > last.S
    /\ Len(ListOrder(Machine)) >= 2

\* The block the walk from bp by block sizes stops at: the first whose header
\* holds size 0 or lies outside the region.
RECURSIVE walk_end(_, _)
walk_end(m, bp) ==
    IF ~Valid(m, HDRP(bp)) \/ GET_SIZE(m, HDRP(bp)) <= 0 THEN bp
    ELSE walk_end(m, NEXT_BLKP(m, bp))

\* The prologue and the epilogue as mm_init and extend_heap leave them, and
\* the blocks between them.
Framed(m) ==
    /\ GET(m, HDRP(m.hl)) = PACK(DSIZE, 1)
    /\ GET(m, FTRP(m, m.hl)) = PACK(DSIZE, 1)
    /\ GET(m, m.brk - WSIZE) = PACK(0, 1)
    /\ HDRP(walk_end(m, m.hl)) = m.brk - WSIZE

\* C19: once initialize has succeeded, the prologue's header and footer hold
\* (8, allocated), the last word of the heap is the epilogue (0, allocated),
\* the walk from the prologue by block sizes ends exactly on the epilogue, and
\* the heap's length never decreases.
C19_Framed ==
    [][Initialized(MachineNext) =>
          /\ Framed(MachineNext)
          /\ mem_brk' >= mem_brk]_vars

\* The heap has been extended past its first chunk and holds four blocks or
\* more between the prologue and the epilogue.
C19_ExtendedHeap ==
    /\ status = "ok"
    /\ mem_brk > MemBase + 4 * WSIZE + CHUNKSIZE
    /\ Cardinality(Blocks(Machine)) >= 4

\* A link of a block of the list: the sentinel heap_listp or a free block of
\* the heap.
LinkTarget(m, t) == t = m.hl \/ t \in FreeBlocks(m)

\* The links of the block b of the list.
Linked(m, b) ==
    /\ LinkTarget(m, GET_PRED(m, b))
    /\ LinkTarget(m, GET_SUCC(m, b))
    /\ GET_PRED(m, b) = m.hl <=> b = m.ff
    /\ GET_SUCC(m, b) # m.hl => GET_PRED(m, GET_SUCC(m, b)) = b
    /\ GET_PRED(m, b) # m.hl => GET_SUCC(m, GET_PRED(m, b)) = b

\* C20: the free list is a consistent doubly linked list: the pred and succ
\* links of each of its blocks decompress to the sentinel or to a free block
\* of the heap, the pred link is the sentinel exactly for first_free, and
\* pred(succ(b)) = b and succ(pred(b)) = b wherever the inner link is not the
\* sentinel.
C20_DoublyLinked ==
    (status = "ok" /\ Initialized(Machine)) =>
        /\ FreeList(Machine).ok
        /\ \A b \in FreeList(Machine).nodes \cup FreeBlocks(Machine) :
              Linked(Machine, b)

\* The list holds two blocks or more after a free.
C20_TwoInList ==
    /\ status = "ok"
    /\ last.op = "free"
    /\ Len(ListOrder(Machine)) >= 2
    /\ FreeList(Machine).ok

====
